---- MODULE Spec2Model ----
(***************************************************************************)
(* Model of the rosout analyzer: the filter evaluator (filterMessages) and *)
(* the container adapter (loadRosbagMessages) of rosbagUtils, and the      *)
(* parts of the App session that call them.                                *)
(*                                                                         *)
(* Strings that the code inspects character by character (messages,        *)
(* keywords, regex patterns, topic names) are sequences of one-character   *)
(* strings; strings that are only compared for equality stay TLA+ strings. *)
(* An optional field (a `?:` field or `x | undefined`) is a sequence of    *)
(* length 0 (undefined) or 1 (the value).                                  *)
(***************************************************************************)
EXTENDS Integers, Sequences, FiniteSets, TLC

\* ----------------------------------------------------------------- bounds
\* Longest record sequence handed to filterMessages.
MaxRecs == 2
\* Most connections in a container, and most messages the reader streams.
MaxConns == 2
MaxStream == 2

\* ------------------------------------------------------- optional values
None == <<>>
Some(x) == <<x>>
IsSome(o) == Len(o) = 1
Val(o) == o[1]

\* ---------------------------------------------------- string primitives
\* String.prototype.toLowerCase, on the characters of the model's alphabet.
LowerChar(c) ==
  CASE c = "A" -> "a"
    [] c = "B" -> "b"
    [] OTHER -> c

toLowerCase(s) == [i \in 1..Len(s) |-> LowerChar(s[i])]

IsSpace(c) == c = " "

\* String.prototype.trim: drop the leading and the trailing white space.
RECURSIVE TrimStart(_)
TrimStart(s) ==
  IF Len(s) > 0 /\ IsSpace(s[1]) THEN TrimStart(Tail(s)) ELSE s

RECURSIVE TrimEnd(_)
TrimEnd(s) ==
  IF Len(s) > 0 /\ IsSpace(s[Len(s)]) THEN TrimEnd(SubSeq(s, 1, Len(s) - 1)) ELSE s

trim(s) == TrimEnd(TrimStart(s))

\* String.prototype.includes: needle occurs in hay as a contiguous substring.
includes(hay, needle) ==
  \E i \in 0..(Len(hay) - Len(needle)) :
    SubSeq(hay, i + 1, i + Len(needle)) = needle

\* ------------------------------------------------------------- RegExp
\* new RegExp(pattern, 'i') over the pattern alphabet of the model: letters,
\* the blank, ".", "(" and ")".  The constructor throws a SyntaxError exactly
\* when the parentheses are not balanced.
RECURSIVE ParenDepth(_, _)
ParenDepth(p, d) ==
  IF d < 0 THEN -1
  ELSE IF Len(p) = 0 THEN d
  ELSE IF p[1] = "(" THEN ParenDepth(Tail(p), d + 1)
  ELSE IF p[1] = ")" THEN ParenDepth(Tail(p), d - 1)
  ELSE ParenDepth(Tail(p), d)

RegExpCompiles(p) == ParenDepth(p, 0) = 0

\* The atoms of a compiled pattern: groups without alternation or quantifier
\* match the concatenation of their contents.
RegExpAtoms(p) == SelectSeq(p, LAMBDA c : c \notin {"(", ")"})

AtomMatches(a, c) == a = "." \/ LowerChar(a) = LowerChar(c)

\* RegExp.prototype.test with the 'i' flag (no 'g' flag: no lastIndex state).
RegExpTest(p, text) ==
  LET atoms == RegExpAtoms(p) IN
  \E i \in 0..(Len(text) - Len(atoms)) :
    \A j \in 1..Len(atoms) : AtomMatches(atoms[j], text[i + j])

\* ------------------------------------------------------- filterMessages
\* conditions.push(filters.severityLevels.has(msg.severity)), when the set is
\* present and not empty.
SeverityConditions(msg, filters) ==
  IF IsSome(filters.severityLevels) /\ Cardinality(Val(filters.severityLevels)) > 0
  THEN << msg.severity \in Val(filters.severityLevels) >>
  ELSE << >>

\* conditions.push(filters.nodeNames.has(msg.node)), when the set is present
\* and not empty.
NodeConditions(msg, filters) ==
  IF IsSome(filters.nodeNames) /\ Cardinality(Val(filters.nodeNames)) > 0
  THEN << msg.node \in Val(filters.nodeNames) >>
  ELSE << >>

\* The keyword list after .map(trim).filter(non-empty).map(toLowerCase).
NormalizeKeywords(kws) ==
  LET trimmed == [i \in 1..Len(kws) |-> trim(kws[i])]
      kept == SelectSeq(trimmed, LAMBDA k : Len(k) > 0)
  IN [i \in 1..Len(kept) |-> toLowerCase(kept[i])]

\* Mutant of RegexConditions: the catch block pushes false instead of skipping.
RegexConditionsPushFalse(msg, filters) ==
  IF RegExpCompiles(Val(filters.messageRegex))
  THEN << RegExpTest(Val(filters.messageRegex), msg.message) >>
  ELSE << FALSE >>

\* The regex branch: the test's result is pushed; a pattern that does not
\* compile is caught and nothing is pushed.
RegexConditions(msg, filters) ==
  IF RegExpCompiles(Val(filters.messageRegex))
  THEN << RegExpTest(Val(filters.messageRegex), msg.message) >>
  ELSE << >>

\* The keyword branch: nothing is pushed when no keyword is left.
KeywordConditions(msg, filters) ==
  LET keywords == NormalizeKeywords(Val(filters.messageKeywords))
      messageLower == toLowerCase(msg.message)
  IN IF Len(keywords) > 0
     THEN << \E i \in 1..Len(keywords) : includes(messageLower, keywords[i]) >>
     ELSE << >>

Truthy(flag) == IsSome(flag) /\ Val(flag)

\* Mutant of TextConditions: the else branch does not test !useRegex, so a
\* blank pattern falls back to the keywords.
TextConditionsFallback(msg, filters) ==
  IF /\ Truthy(filters.useRegex)
     /\ IsSome(filters.messageRegex)
     /\ Len(Val(filters.messageRegex)) > 0
     /\ Len(trim(Val(filters.messageRegex))) > 0
  THEN RegexConditions(msg, filters)
  ELSE IF /\ IsSome(filters.messageKeywords)
          /\ Len(Val(filters.messageKeywords)) > 0
       THEN KeywordConditions(msg, filters)
       ELSE << >>

\* if (useRegex && messageRegex && messageRegex.trim()) ... else if
\* (!useRegex && messageKeywords && messageKeywords.length > 0) ...
TextConditions(msg, filters) ==
  IF /\ Truthy(filters.useRegex)
     /\ IsSome(filters.messageRegex)
     /\ Len(Val(filters.messageRegex)) > 0
     /\ Len(trim(Val(filters.messageRegex))) > 0
  THEN RegexConditions(msg, filters)
  ELSE IF /\ ~Truthy(filters.useRegex)
          /\ IsSome(filters.messageKeywords)
          /\ Len(Val(filters.messageKeywords)) > 0
       THEN KeywordConditions(msg, filters)
       ELSE << >>

conditions(msg, filters) ==
  SeverityConditions(msg, filters) \o NodeConditions(msg, filters)
    \o TextConditions(msg, filters)

every(cs) == \A i \in 1..Len(cs) : cs[i]
some(cs) == \E i \in 1..Len(cs) : cs[i]

\* The time range checks: return false when the record is out of range.
BeforeStart(msg, filters) ==
  IsSome(filters.startTime) /\ msg.timestamp < Val(filters.startTime)

\* Mutant of AfterEnd: endTime tested for truthiness, so an endTime of 0 is
\* taken as absent.
AfterEndTruthy(msg, filters) ==
  /\ IsSome(filters.endTime)
  /\ Val(filters.endTime) # 0
  /\ msg.timestamp > Val(filters.endTime)

AfterEnd(msg, filters) ==
  IsSome(filters.endTime) /\ msg.timestamp > Val(filters.endTime)

\* Mutant of ApplyMode: no early return for an empty condition list.
ApplyModeNoEmptyCase(cs, filters) ==
  IF filters.filterMode = Some("AND") THEN every(cs) ELSE some(cs)

\* Mutant of ApplyMode: every and some exchanged.
ApplyModeSwapped(cs, filters) ==
  IF Len(cs) = 0 THEN TRUE
  ELSE IF filters.filterMode = Some("AND") THEN some(cs)
  ELSE every(cs)

\* if (conditions.length === 0) return true; then AND: every, else: some.
ApplyMode(cs, filters) ==
  IF Len(cs) = 0 THEN TRUE
  ELSE IF filters.filterMode = Some("AND") THEN every(cs)
  ELSE some(cs)

\* The callback given to messages.filter.
KeepMessage(msg, filters) ==
  IF BeforeStart(msg, filters) THEN FALSE
  ELSE IF AfterEnd(msg, filters) THEN FALSE
  ELSE ApplyMode(conditions(msg, filters), filters)

\* Mutant of filterMessages: the scan starts at index 1, not 0.
filterMessagesSkipFirst(messages, filters) ==
  SelectSeq(IF Len(messages) = 0 THEN messages ELSE Tail(messages),
            LAMBDA msg : KeepMessage(msg, filters))

\* Mutant of filterMessages: kept records are prepended, not appended.
filterMessagesReversed(messages, filters) ==
  LET kept == SelectSeq(messages, LAMBDA msg : KeepMessage(msg, filters))
  IN [i \in 1..Len(kept) |-> kept[Len(kept) + 1 - i]]

filterMessages(messages, filters) ==
  SelectSeq(messages, LAMBDA msg : KeepMessage(msg, filters))

\* ---------------------------------------------------------------- state
VARIABLES
  inMessages,   \* the record sequence handed to filterMessages
  inFilters,    \* the filter spec handed to filterMessages
  result,       \* what filterMessages(inMessages, inFilters) returned
  result2,      \* what filterMessages(result, inFilters) returned
  fpc,          \* "input", "applied" (result is set), "reapplied" (result2 is set)
  pc,           \* where loadRosbagMessages stands
  bag,          \* the container: its header and its connections
  rosoutTopics, \* the topics pushed by the connection scan
  scanned,      \* how many connections the scan has visited
  streamed,     \* the results the reader has handed to the callback, in order
  messages,     \* loadRosbagMessages' messages array
  uniqueNodes,  \* loadRosbagMessages' uniqueNodes set
  raised,       \* the error thrown inside the try block, if any
  calls,        \* how often each operation of the file and the reader was invoked
  outcome,      \* how the promise settled: resolved with a value, or rejected
  exIn,         \* the records, the timezone and the observer's zone handed to the exporters
  exOut,        \* the text each exporter returned, once it has run
  stIn,         \* the filteredMessages getStatistics reads
  stOut,        \* what getStatistics returned, once it has run
  app,          \* the state of the App component: one field per useState
  settled       \* how the load awaited by handleFileUpload settled, if it has

filterVars == << inMessages, inFilters, result, result2, fpc >>

loadVars ==
  << pc, bag, rosoutTopics, scanned, streamed, messages, uniqueNodes, raised,
     calls, outcome >>

exportVars == << exIn, exOut >>

statVars == << stIn, stOut >>

appVars == << app, settled >>

outsideFilter == << loadVars, exportVars, statVars, appVars >>

outsideLoad == << filterVars, exportVars, statVars, appVars >>

outsideExport == << filterVars, loadVars, statVars, appVars >>

outsideStats == << filterVars, loadVars, exportVars, appVars >>

outsideApp == << filterVars, loadVars, exportVars, statVars >>

vars == << filterVars, loadVars, exportVars, statVars, appVars >>

\* --------------------------------------------- inputs of filterMessages
\* RosoutMessage: the fields filterMessages reads.
Rec(t, n, s, m) == [timestamp |-> t, node |-> n, severity |-> s, message |-> m]

\* Three records that differ in every field: each of severity, node, message
\* filter and time bound accepts some and rejects others.
LogRecords ==
  { Rec(0, "a", 2, << "a", "B" >>),
    Rec(1, "b", 2, << "B", "a" >>),
    Rec(2, "a", 8, << >>) }

SeqsUpTo(S, n) == UNION { [1..k -> S] : k \in 0..n }

RecordSeqs == SeqsUpTo(LogRecords, MaxRecs)

NodeSets == { None, Some({}), Some({"a"}) }
SeveritySets == { None, Some({}), Some({2}) }
\* [] ; what "," splits into ; what " A," splits into (App trims, so does the filter)
KeywordLists ==
  { None, Some(<< >>), Some(<< << >>, << " " >> >>), Some(<< << " ", "A" >>, << >> >>) }
\* "" ; " " ; "(b" does not compile ; "A." ; "(B)"
RegexPatterns ==
  { None, Some(<< >>), Some(<< " " >>), Some(<< "(", "b" >>), Some(<< "A", "." >>) }
FilterModes == { None, Some("AND"), Some("OR") }
UseRegexFlags == { None, Some(TRUE), Some(FALSE) }
StartTimes == { None, Some(1) }
EndTimes == { None, Some(0), Some(1) }

FilterSpecs ==
  [ nodeNames : NodeSets, severityLevels : SeveritySets,
    messageKeywords : KeywordLists, messageRegex : RegexPatterns,
    filterMode : FilterModes, useRegex : UseRegexFlags,
    startTime : StartTimes, endTime : EndTimes ]


\* --------------------------------------------------- loadRosbagMessages
\* Topic names are inspected by includes('rosout'): character sequences.
RosoutTopic == << "/", "r", "o", "s", "o", "u", "t" >>
OtherTopic == << "/", "t", "f" >>
Topics == { RosoutTopic, OtherTopic }
LogType == "rosgraph_msgs/Log"
Types == { LogType, "std_msgs/String" }

Connections == [ topic : Topics, type : Types ]

\* The header after open(): the connections are read from the index, so
\* connectionCount is their number and a container that has connections has
\* its index at a position other than 0.
Headers(conns) ==
  [ indexPosition : IF Len(conns) = 0 THEN {0, 1} ELSE {1},
    connectionCount : {Len(conns)},
    chunkCount : {0, 1} ]

Bags ==
  UNION { [ header : Headers(conns), connections : {conns} ] :
            conns \in SeqsUpTo(Connections, MaxConns) }

NoBag == [ header |-> [indexPosition |-> 0, connectionCount |-> 0, chunkCount |-> 0],
           connections |-> << >> ]

\* The envelope time of a streamed message.
Stamps == { [sec |-> 1, nsec |-> 0] }

\* result.message, each field present or not.
Payload(level, msg, name, file, line, function, topics) ==
  [ level |-> level, msg |-> msg, name |-> name, file |-> file, line |-> line,
    function |-> function, topics |-> topics ]

Payloads ==
  { \* result.message is null
    None,
    \* a full rosgraph_msgs/Log
    Some(Payload(Some(2), Some(<< "o", "k" >>), Some("n1"), Some("f.cpp"), Some(10),
                 Some("fn"), Some(<< "/rosout" >>))),
    \* level 0, empty text, nothing else
    Some(Payload(Some(0), Some(<< >>), None, None, None, None, None)),
    \* an empty name
    Some(Payload(Some(8), Some(<< "x" >>), Some(""), Some(""), Some(0), Some(""),
                 Some(<< >>))),
    \* no level
    Some(Payload(None, Some(<< "x" >>), Some("n2"), None, None, None, None)),
    \* no msg
    Some(Payload(Some(2), None, Some("n2"), None, None, None, None)) }

\* Errors: what was thrown, and for the missing-topics error the channel list
\* its message enumerates.
Error(kind, channels) == [ kind |-> kind, channels |-> channels ]

Operations == { "arrayBuffer", "import", "open", "readMessages" }

\* The load is not running (the state of the other specifications).
LoadIdle ==
  /\ pc = "idle"
  /\ bag = NoBag
  /\ rosoutTopics = << >>
  /\ scanned = 0
  /\ streamed = << >>
  /\ messages = << >>
  /\ uniqueNodes = {}
  /\ raised = None
  /\ calls = [op \in Operations |-> 0]
  /\ outcome = None

FilterIdle ==
  /\ inMessages = << >>
  /\ inFilters = [ nodeNames |-> None, severityLevels |-> None,
                   messageKeywords |-> None, messageRegex |-> None,
                   filterMode |-> None, useRegex |-> None,
                   startTime |-> None, endTime |-> None ]
  /\ result = << >>
  /\ result2 = << >>
  /\ fpc = "idle"

ExportIdle ==
  /\ exIn = [ messages |-> << >>, timezone |-> "utc", offset |-> 0 ]
  /\ exOut = [ csv |-> None, json |-> None, txt |-> None ]

StatsIdle ==
  /\ stIn = << >>
  /\ stOut = None

\* The App component as it is mounted: the initial value of every useState.
AppMounted ==
  /\ app = [ messages |-> << >>, filteredMessages |-> << >>, uniqueNodes |-> {},
             loading |-> FALSE, error |-> "", selectedNodes |-> {},
             selectedSeverities |-> {}, keywords |-> << >>,
             regexPattern |-> << >>, useRegex |-> FALSE, filterMode |-> "OR" ]
  /\ settled = None

\* loadRosbagMessages(file) is entered: messages = [], uniqueNodes = new Set().
\* The file's container is fixed here; the code sees it after open().
InitLoad ==
  /\ FilterIdle
  /\ ExportIdle
  /\ StatsIdle
  /\ AppMounted
  /\ pc = "arrayBuffer"
  /\ bag \in Bags
  /\ rosoutTopics = << >>
  /\ scanned = 0
  /\ streamed = << >>
  /\ messages = << >>
  /\ uniqueNodes = {}
  /\ raised = None
  /\ calls = [op \in Operations |-> 0]
  /\ outcome = None

Called(op) == [calls EXCEPT ![op] = @ + 1]

\* throw inside the try block: control goes to the catch clause.
Throw(err) ==
  /\ raised' = Some(err)
  /\ pc' = "catch"

\* await file.arrayBuffer()
ReadArrayBuffer ==
  /\ pc = "arrayBuffer"
  /\ calls' = Called("arrayBuffer")
  /\ \/ /\ pc' = "import"
        /\ UNCHANGED raised
     \/ Throw(Error("ReadError", << >>))
  /\ UNCHANGED << bag, rosoutTopics, scanned, streamed, messages, uniqueNodes, outcome >>
  /\ UNCHANGED outsideLoad

\* await import('seek-bzip'); await import('lz4js')
ImportLibraries ==
  /\ pc = "import"
  /\ calls' = Called("import")
  /\ \/ /\ pc' = "open"
        /\ UNCHANGED raised
     \/ Throw(Error("ImportError", << >>))
  /\ UNCHANGED << bag, rosoutTopics, scanned, streamed, messages, uniqueNodes, outcome >>
  /\ UNCHANGED outsideLoad

\* await bag.open()
OpenBag ==
  /\ pc = "open"
  /\ calls' = Called("open")
  /\ \/ /\ pc' = "checkIndex"
        /\ UNCHANGED raised
     \/ Throw(Error("OpenError", << >>))
  /\ UNCHANGED << bag, rosoutTopics, scanned, streamed, messages, uniqueNodes, outcome >>
  /\ UNCHANGED outsideLoad

\* Mutant of IsUnindexed: the index check is missing.
IsUnindexedNoCheck(header) == FALSE

\* bag.header && indexPosition === 0 && connectionCount === 0 && chunkCount === 0
IsUnindexed(header) ==
  /\ header.indexPosition = 0
  /\ header.connectionCount = 0
  /\ header.chunkCount = 0

\* if (the bag is not indexed) throw new Error('... rosbag reindex ...')
CheckIndexed ==
  /\ pc = "checkIndex"
  /\ IF IsUnindexed(bag.header)
     THEN Throw(Error("UnindexedContainerError", << >>))
     ELSE pc' = "scan" /\ UNCHANGED raised
  /\ UNCHANGED << bag, rosoutTopics, scanned, streamed, messages, uniqueNodes, calls,
                  outcome >>
  /\ UNCHANGED outsideLoad

\* conn.topic.includes('rosout') || conn.type === 'rosgraph_msgs/Log'
IsRosout(conn) ==
  includes(conn.topic, << "r", "o", "s", "o", "u", "t" >>) \/ conn.type = LogType

\* One iteration of: for (const [connId, conn] of bag.connections)
ScanConnection ==
  /\ pc = "scan"
  /\ scanned < Len(bag.connections)
  /\ scanned' = scanned + 1
  /\ rosoutTopics' =
       IF IsRosout(bag.connections[scanned + 1])
       THEN Append(rosoutTopics, bag.connections[scanned + 1].topic)
       ELSE rosoutTopics
  /\ UNCHANGED << pc, bag, streamed, messages, uniqueNodes, raised, calls, outcome >>
  /\ UNCHANGED outsideLoad

\* Mutant of availableTopics: one entry per distinct topic name.
availableTopicsDistinct(conns) ==
  LET all == [i \in 1..Len(conns) |-> << conns[i].topic, conns[i].type >>]
      firstOfTopic(i) == \A j \in 1..(i - 1) : conns[j].topic # conns[i].topic
      RECURSIVE Keep(_)
      Keep(i) == IF i > Len(conns) THEN << >>
                 ELSE IF firstOfTopic(i) THEN << all[i] >> \o Keep(i + 1)
                 ELSE Keep(i + 1)
  IN Keep(1)

\* Array.from(bag.connections.values()).map(conn => `  - ${topic} [${type}]`)
availableTopics(conns) ==
  [i \in 1..Len(conns) |-> << conns[i].topic, conns[i].type >>]

\* The loop is over; if (rosoutTopics.length === 0) throw, else readMessages.
CheckTopics ==
  /\ pc = "scan"
  /\ scanned = Len(bag.connections)
  /\ IF Len(rosoutTopics) = 0
     THEN /\ Throw(Error("NoMatchingChannelsError", availableTopics(bag.connections)))
          /\ UNCHANGED calls
     ELSE /\ pc' = "stream"
          /\ calls' = Called("readMessages")
          /\ UNCHANGED raised
  /\ UNCHANGED << bag, rosoutTopics, scanned, streamed, messages, uniqueNodes, outcome >>
  /\ UNCHANGED outsideLoad


\* Mutant of OrString: x ?? d, which keeps the empty string.
OrStringNullish(o, d) == IF IsSome(o) THEN Val(o) ELSE d

\* x || d for a string and for a number: '' and 0 are falsy, as undefined is.
OrString(o, d) == IF IsSome(o) /\ Val(o) # "" THEN Val(o) ELSE d
OrNumber(o, d) == IF IsSome(o) /\ Val(o) # 0 THEN Val(o) ELSE d
\* x || [] for an array: every array is truthy.
OrArray(o, d) == IF IsSome(o) THEN Val(o) ELSE d

NanosPerSec == 1000000000

\* result.timestamp.sec + result.timestamp.nsec / 1e9 (the stamps of the model
\* are whole seconds, where the quotient is exact).
ToSeconds(ts) == ts.sec + (ts.nsec \div NanosPerSec)

\* Mutant of IsLogPayload: msg.level tested for truthiness, so level 0 is
\* taken as absent.
IsLogPayloadTruthy(message) ==
  /\ IsSome(message)
  /\ IsSome(Val(message).level)
  /\ Val(Val(message).level) # 0
  /\ IsSome(Val(message).msg)

\* if (msg && msg.level !== undefined && msg.msg !== undefined)
IsLogPayload(message) ==
  /\ IsSome(message)
  /\ IsSome(Val(message).level)
  /\ IsSome(Val(message).msg)

\* The RosoutMessage built from a streamed result.
rosoutMsg(res) ==
  LET msg == Val(res.message) IN
  [ timestamp |-> ToSeconds(res.timestamp),
    node |-> OrString(msg.name, "unknown"),
    severity |-> Val(msg.level),
    message |-> Val(msg.msg),
    file |-> OrString(msg.file, ""),
    line |-> OrNumber(msg.line, 0),
    function |-> OrString(msg.function, ""),
    topics |-> OrArray(msg.topics, << >>) ]

\* The per-message callback: messages.push(rosoutMsg); if (msg.name) add it.
CallbackMessages(msgs, res) ==
  IF IsLogPayload(res.message) THEN Append(msgs, rosoutMsg(res)) ELSE msgs

\* Mutant of CallbackNodes: the name is added before the payload is tested.
CallbackNodesAnyPayload(nodes, res) ==
  IF IsSome(res.message) /\ OrString(Val(res.message).name, "") # ""
  THEN nodes \cup { Val(Val(res.message).name) }
  ELSE nodes

CallbackNodes(nodes, res) ==
  IF IsLogPayload(res.message) /\ OrString(Val(res.message).name, "") # ""
  THEN nodes \cup { Val(Val(res.message).name) }
  ELSE nodes

\* readMessages({topics: rosoutTopics}, ...): the connections the reader streams
\* are those whose topic is one of the topics asked for.
IsSelected(conn, topics) == \E i \in 1..Len(topics) : topics[i] = conn.topic

\* The reader hands the next message of a selected connection to the callback.
StreamMessage ==
  /\ pc = "stream"
  /\ Len(streamed) < MaxStream
  /\ bag.header.chunkCount > 0
  /\ \E c \in 1..Len(bag.connections), ts \in Stamps, p \in Payloads :
       LET res == [ conn |-> c, timestamp |-> ts, message |-> p ] IN
       /\ IsSelected(bag.connections[c], rosoutTopics)
       /\ streamed' = Append(streamed, res)
       /\ messages' = CallbackMessages(messages, res)
       /\ uniqueNodes' = CallbackNodes(uniqueNodes, res)
  /\ UNCHANGED << pc, bag, rosoutTopics, scanned, raised, calls, outcome >>
  /\ UNCHANGED outsideLoad

\* readMessages rejects: a chunk does not decompress, or a record does not decode.
StreamFail ==
  /\ pc = "stream"
  /\ \/ Throw(Error("DecodeError", << >>))
     \/ /\ bag.header.chunkCount > 0
        /\ Throw(Error("DecompressError", << >>))
  /\ UNCHANGED << bag, rosoutTopics, scanned, streamed, messages, uniqueNodes, calls,
                  outcome >>
  /\ UNCHANGED outsideLoad

Resolved(value) == [ status |-> "resolved", value |-> Some(value), error |-> None ]
Rejected(err) == [ status |-> "rejected", value |-> None, error |-> Some(err) ]

\* readMessages resolves: return { messages, uniqueNodes }
ReturnLoaded ==
  /\ pc = "stream"
  /\ outcome' = Some(Resolved([ messages |-> messages, uniqueNodes |-> uniqueNodes ]))
  /\ pc' = "done"
  /\ UNCHANGED << bag, rosoutTopics, scanned, streamed, messages, uniqueNodes, raised,
                  calls >>
  /\ UNCHANGED outsideLoad

\* Mutant of CatchOutcome: the catch clause throws a new error.
CatchOutcomeWrapped(err, msgs, nodes) == Rejected(Error("LoadError", << >>))

\* Mutant of CatchOutcome: the catch clause returns what was read so far.
CatchOutcomePartial(err, msgs, nodes) ==
  Resolved([ messages |-> msgs, uniqueNodes |-> nodes ])

\* catch (error) { console.error(...); throw error; }
CatchOutcome(err, msgs, nodes) == Rejected(err)

Catch ==
  /\ pc = "catch"
  /\ outcome' = Some(CatchOutcome(Val(raised), messages, uniqueNodes))
  /\ pc' = "done"
  /\ UNCHANGED << bag, rosoutTopics, scanned, streamed, messages, uniqueNodes, raised,
                  calls >>
  /\ UNCHANGED outsideLoad

NextLoad ==
  \/ ReadArrayBuffer
  \/ ImportLibraries
  \/ OpenBag
  \/ CheckIndexed
  \/ ScanConnection
  \/ CheckTopics
  \/ StreamMessage
  \/ StreamFail
  \/ ReturnLoaded
  \/ Catch

SpecLoad == InitLoad /\ [][NextLoad]_vars

\* ------------------------------------------- filterMessages, applied
InitFilter ==
  /\ inMessages \in RecordSeqs
  /\ inFilters \in FilterSpecs
  /\ result = << >>
  /\ result2 = << >>
  /\ fpc = "input"
  /\ LoadIdle
  /\ ExportIdle
  /\ StatsIdle
  /\ AppMounted

\* filtered = filterMessages(messages, filters)
ApplyFilter ==
  /\ fpc = "input"
  /\ result' = filterMessages(inMessages, inFilters)
  /\ fpc' = "applied"
  /\ UNCHANGED << inMessages, inFilters, result2 >>
  /\ UNCHANGED outsideFilter

\* filterMessages(filtered, filters): the same spec on the result
ReapplyFilter ==
  /\ fpc = "applied"
  /\ result2' = filterMessages(result, inFilters)
  /\ fpc' = "reapplied"
  /\ UNCHANGED << inMessages, inFilters, result >>
  /\ UNCHANGED outsideFilter

NextFilter == ApplyFilter \/ ReapplyFilter

SpecFilter == InitFilter /\ [][NextFilter]_vars

\* ------------------------------------------------ helpers of the claims
\* a is a subsequence of b: b with some elements left out.
RECURSIVE IsSubseq(_, _)
IsSubseq(a, b) ==
  IF Len(a) = 0 THEN TRUE
  ELSE IF Len(b) = 0 THEN FALSE
  ELSE IF a[1] = b[1] THEN IsSubseq(Tail(a), Tail(b))
  ELSE IsSubseq(a, Tail(b))

Applied == fpc \in {"applied", "reapplied"}

EmptySetField(o) == ~IsSome(o) \/ Val(o) = {}
EmptySeqField(o) == ~IsSome(o) \/ Len(Val(o)) = 0

\* nodeNames, severityLevels, messageKeywords, messageRegex, startTime and
\* endTime are all absent or empty.
AllEmpty(f) ==
  /\ EmptySetField(f.nodeNames)
  /\ EmptySetField(f.severityLevels)
  /\ EmptySeqField(f.messageKeywords)
  /\ EmptySeqField(f.messageRegex)
  /\ ~IsSome(f.startTime)
  /\ ~IsSome(f.endTime)

\* C1: with every filter field absent or empty (either filterMode, either
\* useRegex), filterMessages returns its input unchanged: same records, same
\* order, same length.
C1_EmptySpecIsIdentity ==
  (Applied /\ AllEmpty(inFilters)) => result = inMessages

C1_Witness ==
  /\ fpc = "applied"
  /\ AllEmpty(inFilters)
  /\ inFilters.filterMode = Some("AND")
  /\ inFilters.nodeNames = Some({})
  /\ Len(inMessages) >= 2
  /\ inMessages[1] # inMessages[2]
  /\ result = inMessages

\* C2: on the same records and a spec differing only in filterMode, what AND
\* returns is contained in what OR returns.
C2_AndWithinOr ==
  (Applied /\ inFilters.filterMode = Some("AND")) =>
    IsSubseq(result,
             filterMessages(inMessages, [inFilters EXCEPT !.filterMode = Some("OR")]))

C2_Witness ==
  /\ fpc = "applied"
  /\ inFilters.filterMode = Some("AND")
  /\ inFilters.severityLevels = Some({2})
  /\ inFilters.nodeNames = Some({"a"})
  /\ Len(result) = 1
  /\ Len(filterMessages(inMessages, [inFilters EXCEPT !.filterMode = Some("OR")])) = 2

\* A string of blanks only (the empty string included).
IsBlank(str) == \A i \in 1..Len(str) : str[i] = " "

\* The message filter input is malformed: a regex that does not compile is
\* selected, or the keywords are selected and none of them is non-blank.
MalformedText(f) ==
  \/ /\ Truthy(f.useRegex)
     /\ IsSome(f.messageRegex)
     /\ ~RegExpCompiles(Val(f.messageRegex))
  \/ /\ ~Truthy(f.useRegex)
     /\ IsSome(f.messageKeywords)
     /\ \A i \in 1..Len(Val(f.messageKeywords)) : IsBlank(Val(f.messageKeywords)[i])

NoText(f) == [f EXCEPT !.messageKeywords = None, !.messageRegex = None]

\* C3: malformed message-filter input (a regex that does not compile, or
\* keywords that are all blank) gives the result of the same spec without any
\* message filter; with severityLevels = {2}, mode AND and nothing else set,
\* that is exactly the severity-2 records.
C3_MalformedTextIsOmitted ==
  (Applied /\ MalformedText(inFilters)) =>
    /\ result = filterMessages(inMessages, NoText(inFilters))
    /\ ( /\ inFilters.severityLevels = Some({2})
         /\ inFilters.filterMode = Some("AND")
         /\ EmptySetField(inFilters.nodeNames)
         /\ ~IsSome(inFilters.startTime)
         /\ ~IsSome(inFilters.endTime) )
       => result = SelectSeq(inMessages, LAMBDA m : m.severity = 2)

C3_Witness ==
  /\ fpc = "applied"
  /\ Truthy(inFilters.useRegex)
  /\ inFilters.messageRegex = Some(<< "(", "b" >>)
  /\ inFilters.severityLevels = Some({2})
  /\ inFilters.filterMode = Some("AND")
  /\ inFilters.nodeNames = None
  /\ inFilters.startTime = None
  /\ inFilters.endTime = None
  /\ Len(inMessages) = 2
  /\ Len(result) = 1

C3_WitnessKeywords ==
  /\ fpc = "applied"
  /\ inFilters.useRegex = Some(FALSE)
  /\ inFilters.messageKeywords = Some(<< << >>, << " " >> >>)
  /\ inFilters.severityLevels = Some({2})
  /\ inFilters.filterMode = Some("AND")
  /\ Len(inMessages) = 2
  /\ Len(result) = 1

InRange(m, f) ==
  /\ IsSome(f.startTime) => m.timestamp >= Val(f.startTime)
  /\ IsSome(f.endTime) => m.timestamp <= Val(f.endTime)

NoTime(f) == [f EXCEPT !.startTime = None, !.endTime = None]

\* C4: no record before startTime or after endTime is ever returned, in any
\* mode and whatever the other predicates say; and the bounds reject nothing
\* else: a record at startTime or endTime (or inside) is returned exactly when
\* the same spec without time bounds returns it.
C4_TimeBoundsAreHardCutoffs ==
  Applied =>
    /\ \A i \in 1..Len(result) : InRange(result[i], inFilters)
    /\ result = SelectSeq(filterMessages(inMessages, NoTime(inFilters)),
                          LAMBDA m : InRange(m, inFilters))

C4_Witness ==
  /\ fpc = "applied"
  /\ inFilters.filterMode = Some("OR")
  /\ inFilters.severityLevels = Some({2})
  /\ inFilters.startTime = Some(1)
  /\ inFilters.endTime = Some(1)
  /\ \E i \in 1..Len(inMessages) :
       inMessages[i].timestamp = 0 /\ inMessages[i].severity = 2
  /\ inFilters.nodeNames = None
  /\ inFilters.messageKeywords = None
  /\ inFilters.useRegex = Some(FALSE)
  /\ result = << >>

C4_WitnessBoundary ==
  /\ fpc = "applied"
  /\ inFilters.startTime = Some(1)
  /\ inFilters.endTime = Some(1)
  /\ Len(result) = 1
  /\ result[1].timestamp = 1
  /\ Len(inMessages) = 2

\* C5: filtering the result again with the same spec changes nothing.
C5_Idempotent ==
  (fpc = "reapplied") => result2 = result

C5_Witness ==
  /\ fpc = "reapplied"
  /\ Len(inMessages) = 2
  /\ Len(result) = 1
  /\ result2 = result

\* C6: the result is a subsequence of the input: only records of the input,
\* none more often than there, in the input's order.
C6_ResultIsSubsequence ==
  Applied => IsSubseq(result, inMessages)

C6_Witness ==
  /\ fpc = "applied"
  /\ Len(inMessages) = 2
  /\ inMessages[1] # inMessages[2]
  /\ result = inMessages
  /\ ~AllEmpty(inFilters)

\* C7: with useRegex true the result does not depend on messageKeywords, and
\* with useRegex false it does not depend on messageRegex, also when the
\* field in use is blank.
C7_UnusedTextFieldIsIgnored ==
  Applied =>
    /\ Truthy(inFilters.useRegex) =>
         \A kw \in KeywordLists :
           filterMessages(inMessages, [inFilters EXCEPT !.messageKeywords = kw]) = result
    /\ ~Truthy(inFilters.useRegex) =>
         \A rx \in RegexPatterns :
           filterMessages(inMessages, [inFilters EXCEPT !.messageRegex = rx]) = result

C7_Witness ==
  /\ fpc = "applied"
  /\ inFilters.useRegex = Some(TRUE)
  /\ inFilters.messageRegex = Some(<< " " >>)
  /\ inFilters.messageKeywords = Some(<< << " ", "A" >>, << >> >>)
  /\ inFilters.filterMode = Some("OR")
  /\ Len(inMessages) = 2
  /\ result = inMessages
  /\ \E i \in 1..2 : ~includes(toLowerCase(inMessages[i].message), << "a" >>)

\* ------------------------------------------ claims on loadRosbagMessages
ErrorKind == IF IsSome(raised) THEN Val(raised).kind ELSE "none"

\* open() has returned and the checks that follow it have been made.
OpenedAndChecked ==
  \/ pc \in {"scan", "stream"}
  \/ pc = "done" /\ ~IsSome(raised)
  \/ IsSome(raised) /\ ErrorKind \notin {"ReadError", "ImportError", "OpenError"}

HeaderAllZero(h) == h.indexPosition = 0 /\ h.connectionCount = 0 /\ h.chunkCount = 0

\* C8: with a header of indexPosition 0, connectionCount 0 and chunkCount 0
\* the load fails with UnindexedContainerError once the container is open: the
\* channel scan, readMessages and the callback are never reached and nothing
\* is returned.
C8_UnindexedFailsBeforeScan ==
  HeaderAllZero(bag.header) =>
    /\ pc \notin {"scan", "stream"}
    /\ scanned = 0
    /\ calls["readMessages"] = 0
    /\ streamed = << >>
    /\ messages = << >>
    /\ OpenedAndChecked => ErrorKind = "UnindexedContainerError"
    /\ IsSome(outcome) =>
         Val(outcome).status = "rejected" /\ Val(outcome).value = None
    /\ (pc = "done" /\ calls["open"] = 1 /\ ErrorKind # "OpenError") =>
         Val(outcome) = Rejected(Error("UnindexedContainerError", << >>))

C8_Witness ==
  /\ HeaderAllZero(bag.header)
  /\ pc = "done"
  /\ calls["open"] = 1
  /\ Val(outcome) = Rejected(Error("UnindexedContainerError", << >>))

\* name contains "rosout", or type tag equals "rosgraph_msgs/Log"
QualifiesAsLog(conn) == conn.topic = RosoutTopic \/ conn.type = "rosgraph_msgs/Log"

NoneQualifies == \A i \in 1..Len(bag.connections) : ~QualifiesAsLog(bag.connections[i])

\* C9: an indexed container without a log channel fails with
\* NoMatchingChannelsError, nothing streamed, and the error lists the name and
\* type of every connection, one entry each; with a log channel present the
\* error is never raised.
C9_NoMatchingChannels ==
  /\ (NoneQualifies /\ ~HeaderAllZero(bag.header)) =>
       /\ pc # "stream"
       /\ calls["readMessages"] = 0
       /\ streamed = << >>
       /\ (OpenedAndChecked /\ pc \in {"catch", "done"}) =>
            /\ ErrorKind = "NoMatchingChannelsError"
            /\ Len(Val(raised).channels) = Len(bag.connections)
            /\ \A i \in 1..Len(bag.connections) :
                 Val(raised).channels[i] =
                   << bag.connections[i].topic, bag.connections[i].type >>
       /\ (OpenedAndChecked /\ pc = "done") => Val(outcome) = Rejected(Val(raised))
  /\ ~NoneQualifies => ErrorKind # "NoMatchingChannelsError"

C9_Witness ==
  /\ pc = "done"
  /\ Len(bag.connections) = 2
  /\ bag.connections[1] = bag.connections[2]
  /\ IsSome(outcome)
  /\ Val(outcome).status = "rejected"
  /\ Val(Val(outcome).error).kind = "NoMatchingChannelsError"
  /\ Len(Val(Val(outcome).error).channels) = 2

C9_WitnessQualifying ==
  /\ pc = "done"
  /\ ~NoneQualifies
  /\ \E i \in 1..Len(bag.connections) : ~QualifiesAsLog(bag.connections[i])
  /\ Val(outcome).status = "resolved"

\* C10: a failure of any step reaches the caller as the error that was raised;
\* the attempt stops there (control is in the catch clause or the promise is
\* settled), no operation is invoked a second time, and the rejection carries
\* no record sequence or node set.
C10_FailurePropagates ==
  /\ IsSome(raised) =>
       /\ pc \in {"catch", "done"}
       /\ pc = "done" => Val(outcome) = Rejected(Val(raised))
  /\ (IsSome(outcome) /\ Val(outcome).status = "rejected") =>
       /\ IsSome(raised)
       /\ Val(outcome).error = raised
       /\ Val(outcome).value = None
  /\ (IsSome(outcome) /\ Val(outcome).status = "resolved") => ~IsSome(raised)
  /\ \A op \in Operations : calls[op] <= 1

C10_Witness ==
  /\ pc = "done"
  /\ Len(messages) >= 1
  /\ uniqueNodes # {}
  /\ Val(outcome) = Rejected(Error("DecompressError", << >>))

C10_WitnessOpen ==
  /\ pc = "done"
  /\ calls["open"] = 1
  /\ calls["readMessages"] = 0
  /\ Val(outcome) = Rejected(Error("OpenError", << >>))

\* The streamed result carries a payload with a level field and a msg field.
HasBoth(res) ==
  /\ res.message # None
  /\ Val(res.message).level # None
  /\ Val(res.message).msg # None

StreamedLogs == SelectSeq(streamed, HasBoth)

ReturnedValue == Val(Val(outcome).value)

LoadResolved == pc = "done" /\ IsSome(outcome) /\ Val(outcome).status = "resolved"

\* C11: the record sequence holds one record per streamed payload that has
\* both level and msg, in streaming order, severity and message verbatim
\* (severity 0 and the empty message included); other payloads add nothing
\* and do not fail the load; a successful load returns that sequence.
C11_OneRecordPerLogPayload ==
  /\ Len(messages) = Len(StreamedLogs)
  /\ \A i \in 1..Len(messages) :
       /\ messages[i].severity = Val(Val(StreamedLogs[i].message).level)
       /\ messages[i].message = Val(Val(StreamedLogs[i].message).msg)
  /\ LoadResolved => ReturnedValue.messages = messages

C11_Witness ==
  /\ LoadResolved
  /\ Len(streamed) = 2
  /\ ~HasBoth(streamed[1])
  /\ streamed[1].message # None
  /\ HasBoth(streamed[2])
  /\ Len(ReturnedValue.messages) = 1
  /\ ReturnedValue.messages[1].severity = 0
  /\ ReturnedValue.messages[1].message = << >>

PayloadName(res) == Val(res.message).name

\* C12: every record's node is non-empty: the payload's name when that is
\* present and non-empty, "unknown" otherwise.
C12_NodeNeverEmpty ==
  \A i \in 1..Len(messages) :
    /\ messages[i].node # ""
    /\ i <= Len(StreamedLogs) =>
         IF PayloadName(StreamedLogs[i]) # None /\ Val(PayloadName(StreamedLogs[i])) # ""
         THEN messages[i].node = Val(PayloadName(StreamedLogs[i]))
         ELSE messages[i].node = "unknown"

C12_Witness ==
  /\ Len(messages) = 2
  /\ PayloadName(StreamedLogs[1]) = Some("")
  /\ messages[1].node = "unknown"
  /\ PayloadName(StreamedLogs[2]) = Some("n1")
  /\ messages[2].node = "n1"

\* C17: only messages of qualifying connections reach the callback, also when
\* a qualifying and a non-qualifying connection share a topic name.
C17_OnlyQualifyingStreamed ==
  \A i \in 1..Len(streamed) : QualifiesAsLog(bag.connections[streamed[i].conn])

RecordNodes == { messages[i].node : i \in 1..Len(messages) }

\* C18 as claimed: the node set is the set of the records' nodes.
C18_NodeSetEqualsRecordNodes ==
  /\ uniqueNodes = RecordNodes
  /\ LoadResolved => ReturnedValue.uniqueNodes = RecordNodes

NamedLogs ==
  SelectSeq(StreamedLogs,
            LAMBDA res : PayloadName(res) # None /\ Val(PayloadName(res)) # "")

\* C18 amended: the node set is the set of the non-empty names of the
\* payloads that produced a record: each member is the node of a record, and
\* each record whose node is not the sentinel "unknown" has its node in it.
C18_NodeSetIsNamedNodes ==
  /\ uniqueNodes = { Val(PayloadName(NamedLogs[i])) : i \in 1..Len(NamedLogs) }
  /\ uniqueNodes \subseteq RecordNodes
  /\ \A i \in 1..Len(messages) :
       messages[i].node # "unknown" => messages[i].node \in uniqueNodes
  /\ LoadResolved => ReturnedValue.uniqueNodes = uniqueNodes

C18_Witness ==
  /\ LoadResolved
  /\ Len(messages) = 2
  /\ messages[1].node = "unknown"
  /\ messages[2].node = "n1"
  /\ ReturnedValue.uniqueNodes = {"n1"}

\* ---------------------------------------------------------------------
\* The exporters. A text is a sequence of pieces. Text that comes from a
\* record is one character per piece, and so is every character an exporter
\* or a reader of its output inspects: comma, quote, newline, backslash.
\* Text the code writes literally and that holds none of these (a column
\* title, a key of the JSON object with its indentation) may be one piece.

Comma == ","

Quote == "\""

Newline == "\n"

Backslash == "\\"

SEVERITY_NAMES ==
  [ sev \in {1, 2, 4, 8, 16} |->
      CASE sev = 1 -> << "D", "E", "B", "U", "G" >>
        [] sev = 2 -> << "I", "N", "F", "O" >>
        [] sev = 4 -> << "W", "A", "R", "N" >>
        [] sev = 8 -> << "E", "R", "R", "O", "R" >>
        [] sev = 16 -> << "F", "A", "T", "A", "L" >> ]

DecimalDigits == << "0", "1", "2", "3", "4", "5", "6", "7", "8", "9" >>

RECURSIVE Digits(_)
Digits(n) ==
  IF n < 10 THEN << DecimalDigits[n + 1] >>
  ELSE Digits(n \div 10) \o << DecimalDigits[(n % 10) + 1] >>

\* String(n) of an integer n.
String(n) == IF n < 0 THEN << "-" >> \o Digits(-n) ELSE Digits(n)

RECURSIVE padStart(_, _, _)
padStart(text, width, fill) ==
  IF Len(text) >= width THEN text ELSE padStart(<< fill >> \o text, width, fill)

\* n.toFixed(6) of an integer n: six zero decimals.
toFixed(n) == String(n) \o << ".", "0", "0", "0", "0", "0", "0" >>

\* value || fallback for a string or an array: the empty one is falsy.
OrText(value, fallback) == IF value = << >> THEN fallback ELSE value

\* value || 0 for a number.
OrZero(value) == IF value = 0 THEN 0 ELSE value

RECURSIVE join(_, _)
join(texts, sep) ==
  IF texts = << >> THEN << >>
  ELSE IF Len(texts) = 1 THEN texts[1]
  ELSE texts[1] \o sep \o join(Tail(texts), sep)

\* formatTimestamp(timestamp, timezone) for a whole number of seconds that
\* falls on 1970-01-01 in the zone it is rendered in; offset is the number of
\* seconds the observer's zone is ahead of UTC. In both branches the
\* milliseconds are those of the Date, three digits.
formatTimestamp(timestamp, timezone, offset) ==
  LET shown == IF timezone = "utc" THEN timestamp ELSE timestamp + offset
      hours == padStart(String(shown \div 3600), 2, "0")
      minutes == padStart(String((shown % 3600) \div 60), 2, "0")
      seconds == padStart(String(shown % 60), 2, "0")
      ms == padStart(String(0), 3, "0")
      day == << "1", "9", "7", "0", "-", "0", "1", "-", "0", "1" >>
      clock == hours \o << ":" >> \o minutes \o << ":" >> \o seconds
                 \o << "." >> \o ms
  IN IF timezone = "utc"
     THEN day \o << " " >> \o clock \o << " ", "U", "T", "C" >>
     ELSE day \o << " " >> \o clock

RECURSIVE DoubleQuotes(_)
\* value.replace(/"/g, '""')
DoubleQuotes(value) ==
  IF value = << >> THEN << >>
  ELSE (IF Head(value) = Quote THEN << Quote, Quote >> ELSE << Head(value) >>)
         \o DoubleQuotes(Tail(value))

\* escapeCSV without the newline test.
escapeCSVNoNewline(value) ==
  IF includes(value, << Comma >>) \/ includes(value, << Quote >>)
  THEN << Quote >> \o DoubleQuotes(value) \o << Quote >>
  ELSE value

escapeCSV(value) ==
  IF \/ includes(value, << Comma >>)
     \/ includes(value, << Quote >>)
     \/ includes(value, << Newline >>)
  THEN << Quote >> \o DoubleQuotes(value) \o << Quote >>
  ELSE value

\* The severity column that falls back to a fixed label.
SeverityTextLabel(severity) ==
  IF severity \in DOMAIN SEVERITY_NAMES THEN SEVERITY_NAMES[severity]
  ELSE << "U", "N", "K", "N", "O", "W", "N" >>

\* SEVERITY_NAMES[msg.severity] || String(msg.severity)
SeverityText(severity) ==
  IF severity \in DOMAIN SEVERITY_NAMES THEN SEVERITY_NAMES[severity]
  ELSE String(severity)

CSVHeaders ==
  << << "Timestamp" >>, << "Time" >>, << "Node" >>, << "Severity" >>,
     << "Message" >>, << "File" >>, << "Line" >>, << "Function" >>,
     << "Topics" >> >>

CSVRow(msg, timezone, offset) ==
  << toFixed(msg.timestamp),
     formatTimestamp(msg.timestamp, timezone, offset),
     escapeCSV(msg.node),
     SeverityText(msg.severity),
     escapeCSV(msg.message),
     escapeCSV(OrText(msg.file, << >>)),
     String(OrZero(msg.line)),
     escapeCSV(OrText(msg.function, << >>)),
     escapeCSV(join(OrText(msg.topics, << >>), << ";" >>)) >>

exportToCSV(msgs, timezone, offset) ==
  join(<< join(CSVHeaders, << Comma >>) >>
         \o [ i \in 1..Len(msgs) |->
                join(CSVRow(msgs[i], timezone, offset), << Comma >>) ],
       << Newline >>)

TXTLine(msg, timezone, offset) ==
  LET time == formatTimestamp(msg.timestamp, timezone, offset)
      severity == SeverityText(msg.severity)
      location == IF msg.file # << >>
                  THEN msg.file \o << ":" >> \o String(OrZero(msg.line))
                  ELSE << >>
      line == << "[" >> \o time \o << "]", " ", "[" >> \o severity
                \o << "]", " ", "[" >> \o msg.node \o << "]", ":", " " >>
                \o msg.message
  IN IF location # << >>
     THEN line \o << " ", "(" >> \o location \o << ")" >>
     ELSE line

exportToTXT(msgs, timezone, offset) ==
  join([ i \in 1..Len(msgs) |-> TXTLine(msgs[i], timezone, offset) ],
       << Newline >>)


RECURSIVE EscapeJSON(_)
\* JSON.stringify's escapes of the characters a text here can hold.
EscapeJSON(text) ==
  IF text = << >> THEN << >>
  ELSE (CASE Head(text) = Quote -> << Backslash, Quote >>
          [] Head(text) = Backslash -> << Backslash, Backslash >>
          [] Head(text) = Newline -> << Backslash, "n" >>
          [] OTHER -> << Head(text) >>)
         \o EscapeJSON(Tail(text))

JSONString(text) == << Quote >> \o EscapeJSON(text) \o << Quote >>

\* SEVERITY_NAMES[msg.severity] || msg.severity, as JSON.stringify writes it:
\* a name is a string, a bare severity is a number.
JSONSeverity(severity) ==
  IF severity \in DOMAIN SEVERITY_NAMES
  THEN JSONString(SEVERITY_NAMES[severity])
  ELSE String(severity)

JSONTopics(topics) ==
  IF topics = << >> THEN << "[]" >>
  ELSE << "[", Newline >>
         \o join([ i \in 1..Len(topics) |->
                     << "      " >> \o JSONString(topics[i]) ],
                 << Comma, Newline >>)
         \o << Newline, "    ]" >>

SeverityKey == "    \"severity\": "

JSONObject(msg, timezone, offset) ==
  << "  {", Newline >>
    \o << "    \"timestamp\": " >> \o String(msg.timestamp) \o << Comma, Newline >>
    \o << "    \"time\": " >>
    \o JSONString(formatTimestamp(msg.timestamp, timezone, offset))
    \o << Comma, Newline >>
    \o << "    \"node\": " >> \o JSONString(msg.node) \o << Comma, Newline >>
    \o << SeverityKey >> \o JSONSeverity(msg.severity) \o << Comma, Newline >>
    \o << "    \"message\": " >> \o JSONString(msg.message) \o << Comma, Newline >>
    \o << "    \"file\": " >> \o JSONString(OrText(msg.file, << >>))
    \o << Comma, Newline >>
    \o << "    \"line\": " >> \o String(OrZero(msg.line)) \o << Comma, Newline >>
    \o << "    \"function\": " >> \o JSONString(OrText(msg.function, << >>))
    \o << Comma, Newline >>
    \o << "    \"topics\": " >> \o JSONTopics(OrText(msg.topics, << >>))
    \o << Newline, "  }" >>

exportToJSON(msgs, timezone, offset) ==
  IF msgs = << >> THEN << "[]" >>
  ELSE << "[", Newline >>
         \o join([ i \in 1..Len(msgs) |-> JSONObject(msgs[i], timezone, offset) ],
                 << Comma, Newline >>)
         \o << Newline, "]" >>

\* The records handed to the exporters: every named severity, two unnamed
\* ones, and texts with commas, quotes and newlines in every text field.
ExportRec(t, n, s, m, f, l, fn, tp) ==
  [ timestamp |-> t, node |-> n, severity |-> s, message |-> m, file |-> f,
    line |-> l, function |-> fn, topics |-> tp ]

ExportRecords ==
  { ExportRec(1, << "n" >>, 1, << "o", "k" >>, << "f" >>, 7, << "g" >>,
              << << "/", "r" >> >>),
    ExportRec(2, << "n", Comma, "m" >>, 2,
              << "a", Comma, Quote, "b", Quote, Newline, "c" >>,
              << >>, 0, << >>, << >>),
    ExportRec(61, << Quote >>, 4, << >>, << "f", Newline >>, 3,
              << Quote, Quote >>, << << "a" >>, << "b", Comma >> >>),
    ExportRec(3599, << "n", Newline >>, 8, << Newline >>, << Comma >>, 12,
              << "g", Comma, "h" >>, << >>),
    ExportRec(0, << "n" >>, 16, << "x", Backslash >>, << Quote, "f" >>, 0,
              << Newline >>, << >>),
    ExportRec(5, << "m" >>, 99, << "a", "b" >>, << >>, 0, << >>, << >>),
    ExportRec(7, << "m" >>, 0, << Quote, "a", Quote >>, << "f" >>, 1,
              << >>, << >>) }

MaxExport == 2

Timezones == { "local", "utc" }

ZoneOffsets == { 0, 3600 }

InitExport ==
  /\ exIn \in [ messages : SeqsUpTo(ExportRecords, MaxExport),
                timezone : Timezones, offset : ZoneOffsets ]
  /\ exOut = [ csv |-> None, json |-> None, txt |-> None ]
  /\ FilterIdle
  /\ LoadIdle
  /\ StatsIdle
  /\ AppMounted

\* handleExport('csv')
ExportCSV ==
  /\ exOut.csv = None
  /\ exOut' = [ exOut EXCEPT
                  !.csv = Some(exportToCSV(exIn.messages, exIn.timezone, exIn.offset)) ]
  /\ UNCHANGED exIn
  /\ UNCHANGED outsideExport

\* handleExport('json')
ExportJSON ==
  /\ exOut.json = None
  /\ exOut' = [ exOut EXCEPT
                  !.json = Some(exportToJSON(exIn.messages, exIn.timezone, exIn.offset)) ]
  /\ UNCHANGED exIn
  /\ UNCHANGED outsideExport

\* handleExport('txt')
ExportTXT ==
  /\ exOut.txt = None
  /\ exOut' = [ exOut EXCEPT
                  !.txt = Some(exportToTXT(exIn.messages, exIn.timezone, exIn.offset)) ]
  /\ UNCHANGED exIn
  /\ UNCHANGED outsideExport

NextExport == ExportCSV \/ ExportJSON \/ ExportTXT

SpecExport == InitExport /\ [][NextExport]_vars


\* ---------------------------------------------------------------------
\* Reading the exports back.

QuotesIn(text, from, to) ==
  Cardinality({ p \in from..to : text[p] = Quote })

\* The pieces of text at the positions in keep, in order.
Pick(text, keep) ==
  [ k \in 1..Cardinality(keep) |->
      text[CHOOSE p \in keep : Cardinality({ q \in keep : q < p }) = k - 1] ]

FirstOr(positions, otherwise) ==
  IF positions = {} THEN otherwise
  ELSE CHOOSE p \in positions : \A q \in positions : p <= q

\* The field that starts at position i, read with quote-aware rules, and the
\* position of the separator that ends it. A quote at the start opens a
\* quoted field: inside it a doubled quote is one quote, a single quote closes
\* it, and commas and newlines are content. Otherwise the field runs up to the
\* next comma or newline.
CSVField(text, i) ==
  LET n == Len(text) IN
  IF i <= n /\ text[i] = Quote
  THEN LET close == FirstOr({ q \in (i + 1)..n :
                                /\ text[q] = Quote
                                /\ QuotesIn(text, i + 1, q) % 2 = 1
                                /\ (q = n \/ text[q + 1] # Quote) }, n + 1)
           keep == { p \in (i + 1)..(close - 1) :
                       ~(text[p] = Quote /\ QuotesIn(text, i + 1, p) % 2 = 0) }
       IN [ value |-> Pick(text, keep),
            next |-> FirstOr({ e \in (close + 1)..n :
                                 text[e] \in { Comma, Newline } }, n + 1) ]
  ELSE LET end == FirstOr({ e \in i..n : text[e] \in { Comma, Newline } }, n + 1)
       IN [ value |-> SubSeq(text, i, end - 1), next |-> end ]

RECURSIVE CSVScan(_, _, _, _)
\* The rows of fields from position i on: a comma ends a field, a newline
\* outside quotes ends a row.
CSVScan(text, i, row, rows) ==
  LET f == CSVField(text, i) IN
  IF f.next > Len(text) THEN rows \o << row \o << f.value >> >>
  ELSE IF text[f.next] = Comma
  THEN CSVScan(text, f.next + 1, row \o << f.value >>, rows)
  ELSE CSVScan(text, f.next + 1, << >>, rows \o << row \o << f.value >> >>)

ParseCSV(text) == CSVScan(text, 1, << >>, << >>)

RECURSIVE SplitLines(_)
\* The lines of a text: its parts between newlines.
SplitLines(text) ==
  IF \A i \in 1..Len(text) : text[i] # Newline THEN << text >>
  ELSE LET cut == CHOOSE i \in 1..Len(text) :
                    /\ text[i] = Newline
                    /\ \A j \in 1..(i - 1) : text[j] # Newline
       IN << SubSeq(text, 1, cut - 1) >>
            \o SplitLines(SubSeq(text, cut + 1, Len(text)))

NamedSeverities == { 1, 2, 4, 8, 16 }

\* What a reader expects in the severity position.
ExpectedSeverity(severity) ==
  CASE severity = 1 -> << "D", "E", "B", "U", "G" >>
    [] severity = 2 -> << "I", "N", "F", "O" >>
    [] severity = 4 -> << "W", "A", "R", "N" >>
    [] severity = 8 -> << "E", "R", "R", "O", "R" >>
    [] severity = 16 -> << "F", "A", "T", "A", "L" >>
    [] severity = 99 -> << "9", "9" >>
    [] severity = 0 -> << "0" >>

\* The value that follows the i-th severity key of a JSON text, up to the
\* comma that ends the member.
JSONSeverityAt(text, i) ==
  LET keys == { p \in 1..Len(text) : text[p] = SeverityKey }
      at == CHOOSE p \in keys : Cardinality({ q \in keys : q < p }) = i - 1
      stop == CHOOSE q \in (at + 1)..Len(text) :
                /\ text[q] = Comma
                /\ \A r \in (at + 1)..(q - 1) : text[r] # Comma
  IN SubSeq(text, at + 1, stop - 1)

RECURSIVE TXTStart(_, _, _, _)
\* Where the rendering of the i-th record starts in the TXT text.
TXTStart(msgs, timezone, offset, i) ==
  IF i = 1 THEN 1
  ELSE TXTStart(msgs, timezone, offset, i - 1)
         + Len(TXTLine(msgs[i - 1], timezone, offset)) + 1

\* The severity position of the i-th record in the TXT text holds sev, between
\* "] [" after the time and "] [" before the node.
TXTSeverityIs(text, msgs, timezone, offset, i, sev) ==
  LET time == formatTimestamp(msgs[i].timestamp, timezone, offset)
      from == TXTStart(msgs, timezone, offset, i)
  IN SubSeq(text, from, from + Len(time) + Len(sev) + Len(msgs[i].node) + 6)
       = << "[" >> \o time \o << "]", " ", "[" >> \o sev
           \o << "]", " ", "[" >> \o msgs[i].node

\* C13: in the severity position of the CSV, JSON and TXT exports a named
\* severity (1, 2, 4, 8, 16) reads DEBUG, INFO, WARN, ERROR, FATAL and any
\* other severity reads as its own numeral (99 as 99); in JSON the name is a
\* string and the numeral a number. Every export is produced.
C13_SeverityRendering ==
  LET R == exIn.messages IN
  /\ IsSome(exOut.csv) =>
       LET rows == ParseCSV(Val(exOut.csv)) IN
       /\ Len(rows) = Len(R) + 1
       /\ \A i \in 1..Len(R) :
            /\ Len(rows[i + 1]) >= 4
            /\ rows[i + 1][4] = ExpectedSeverity(R[i].severity)
  /\ IsSome(exOut.json) =>
       \A i \in 1..Len(R) :
         JSONSeverityAt(Val(exOut.json), i)
           = IF R[i].severity \in NamedSeverities
             THEN << Quote >> \o ExpectedSeverity(R[i].severity) \o << Quote >>
             ELSE ExpectedSeverity(R[i].severity)
  /\ IsSome(exOut.txt) =>
       \A i \in 1..Len(R) :
         TXTSeverityIs(Val(exOut.txt), R, exIn.timezone, exIn.offset, i,
                       ExpectedSeverity(R[i].severity))

C13_Witness ==
  /\ IsSome(exOut.csv) /\ IsSome(exOut.json) /\ IsSome(exOut.txt)
  /\ Len(exIn.messages) = 2
  /\ exIn.messages[1].severity = 99
  /\ exIn.messages[2].severity = 4
  /\ ParseCSV(Val(exOut.csv))[2][4] = << "9", "9" >>
  /\ JSONSeverityAt(Val(exOut.json), 1) = << "9", "9" >>
  /\ JSONSeverityAt(Val(exOut.json), 2) = << Quote, "W", "A", "R", "N", Quote >>

HasSpecial(text) ==
  \E i \in 1..Len(text) : text[i] \in { Comma, Quote, Newline }

CSVTextFields(msg) == << msg.node, msg.message, msg.file, msg.function >>

\* C14: the CSV text read back with quote-aware rules is the header row and
\* then one row of exactly 9 fields per record, whose Node, Message, File and
\* Function fields are the record's texts; a text with a comma, a quote or a
\* newline is written wrapped in quotes with its quotes doubled.
C14_CSVRoundTrip ==
  IsSome(exOut.csv) =>
    LET R == exIn.messages
        rows == ParseCSV(Val(exOut.csv))
    IN /\ Len(rows) = Len(R) + 1
       /\ rows[1] = CSVHeaders
       /\ \A i \in 1..Len(R) :
            /\ Len(rows[i + 1]) = 9
            /\ rows[i + 1][3] = R[i].node
            /\ rows[i + 1][5] = R[i].message
            /\ rows[i + 1][6] = R[i].file
            /\ rows[i + 1][8] = R[i].function
            /\ \A k \in 1..4 :
                 HasSpecial(CSVTextFields(R[i])[k]) =>
                   includes(Val(exOut.csv),
                            << Quote >> \o DoubleQuotes(CSVTextFields(R[i])[k])
                              \o << Quote >>)

C14_Witness ==
  /\ IsSome(exOut.csv)
  /\ Len(exIn.messages) = 2
  /\ exIn.messages[1].message = << "a", Comma, Quote, "b", Quote, Newline, "c" >>
  /\ exIn.messages[2].function = << Newline >>
  /\ Len(ParseCSV(Val(exOut.csv))) = 3
  /\ ParseCSV(Val(exOut.csv))[2][5] = exIn.messages[1].message

\* C15: the TXT text split on the line separator has exactly one line per
\* record, the i-th line renders the i-th record, and it ends with
\* " (file:line)" exactly when the record's file is not empty.
C15_OneLinePerRecord ==
  (IsSome(exOut.txt) /\ exIn.messages # << >>) =>
    LET R == exIn.messages
        lines == SplitLines(Val(exOut.txt))
    IN /\ Len(lines) = Len(R)
       /\ \A i \in 1..Len(R) :
            LET suffix == << " ", "(" >> \o R[i].file \o << ":" >>
                            \o String(R[i].line) \o << ")" >>
            IN /\ lines[i] = TXTLine(R[i], exIn.timezone, exIn.offset)
               /\ (R[i].file # << >>) <=>
                    (/\ Len(lines[i]) >= Len(suffix)
                     /\ SubSeq(lines[i], Len(lines[i]) - Len(suffix) + 1,
                               Len(lines[i])) = suffix)


\* ---------------------------------------------------------------------
\* getStatistics. nodeCount and severityCount are plain objects; a node name
\* is a sequence of characters, because the order of an object's keys depends
\* on whether a key is written like an array index.

IsDigit(c) == c \in { "0", "1", "2", "3", "4", "5", "6", "7", "8", "9" }

DigitValue(c) == CHOOSE d \in 0..9 : DecimalDigits[d + 1] = c

RECURSIVE NumericValue(_)
NumericValue(name) ==
  IF name = << >> THEN 0
  ELSE 10 * NumericValue(SubSeq(name, 1, Len(name) - 1))
         + DigitValue(name[Len(name)])

\* A key is an array index when it is the decimal numeral of an integer in
\* 0..2^32-2, written without leading zeros.
IsArrayIndex(name) ==
  /\ name # << >>
  /\ \A i \in 1..Len(name) : IsDigit(name[i])
  /\ (Len(name) = 1 \/ name[1] # "0")
  /\ Len(name) <= 9

\* The position at which a node first occurs in msgs.
FirstIndex(msgs, node) ==
  CHOOSE i \in 1..Len(msgs) :
    /\ msgs[i].node = node
    /\ \A j \in 1..(i - 1) : msgs[j].node # node

\* nodeCount after the forEach: the count of each node that occurs.
nodeCount(msgs) ==
  [ node \in { msgs[i].node : i \in 1..Len(msgs) } |->
      Cardinality({ i \in 1..Len(msgs) : msgs[i].node = node }) ]

\* severityCount after the forEach.
severityCount(msgs) ==
  [ sev \in { msgs[i].severity : i \in 1..Len(msgs) } |->
      Cardinality({ i \in 1..Len(msgs) : msgs[i].severity = sev }) ]

\* The elements of S as a sequence, in ascending order of their rank.
Ordered(S, rank) ==
  [ k \in 1..Cardinality(S) |->
      CHOOSE x \in S : Cardinality({ y \in S : rank[y] < rank[x] }) = k - 1 ]

\* Object.entries(nodeCount): the keys that are array indices first, in
\* ascending numeric order, then the other keys in the order they were
\* created, which is the order of first occurrence in msgs.
ObjectEntries(msgs) ==
  LET counts == nodeCount(msgs)
      indices == { k \in DOMAIN counts : IsArrayIndex(k) }
      first == Ordered(indices, [ k \in indices |-> NumericValue(k) ])
      rest == Ordered(DOMAIN counts \ indices,
                      [ k \in DOMAIN counts \ indices |-> FirstIndex(msgs, k) ])
      keys == first \o rest
  IN [ k \in 1..Len(keys) |-> << keys[k], counts[keys[k]] >> ]

\* entries.sort(([, a], [, b]) => b - a): a stable sort by count descending.
SortByCount(entries) ==
  LET rank(j) ==
        1 + Cardinality({ i \in 1..Len(entries) : entries[i][2] > entries[j][2] })
          + Cardinality({ i \in 1..(j - 1) : entries[i][2] = entries[j][2] })
  IN [ k \in 1..Len(entries) |->
         entries[CHOOSE j \in 1..Len(entries) : rank(j) = k] ]

\* array.slice(0, end)
slice(array, end) ==
  SubSeq(array, 1, IF Len(array) < end THEN Len(array) ELSE end)

getStatistics(msgs) ==
  [ severityCount |-> severityCount(msgs),
    topNodes |-> slice(SortByCount(ObjectEntries(msgs)), 5) ]

StatNodes ==
  { << "a" >>, << "b" >>, << "2" >>, << "1" >>, << "1", "0" >>, << "0", "3" >> }

StatRecords ==
  { Rec(0, node, IF IsArrayIndex(node) THEN 2 ELSE 8, << >>) : node \in StatNodes }

MaxStats == 6

InitStats ==
  /\ stIn \in SeqsUpTo(StatRecords, MaxStats)
  /\ stOut = None
  /\ FilterIdle
  /\ LoadIdle
  /\ ExportIdle
  /\ AppMounted

\* const stats = getStatistics()
GetStatistics ==
  /\ stOut = None
  /\ stOut' = Some(getStatistics(stIn))
  /\ UNCHANGED stIn
  /\ UNCHANGED outsideStats

NextStats == GetStatistics

SpecStats == InitStats /\ [][NextStats]_vars

\* C16: topNodes has at most 5 entries, of distinct nodes with their exact
\* counts, ordered by count descending with ties in the order in which the
\* nodes first occur in the records, and no node left out has a higher count
\* than a node included.
C16_TopNodes ==
  IsSome(stOut) =>
    LET top == Val(stOut).topNodes
        occurs(node) == Cardinality({ i \in 1..Len(stIn) : stIn[i].node = node })
        included == { top[k][1] : k \in 1..Len(top) }
        all == { stIn[i].node : i \in 1..Len(stIn) }
    IN /\ Len(top) <= 5
       /\ Len(top) = (IF Cardinality(all) < 5 THEN Cardinality(all) ELSE 5)
       /\ Cardinality(included) = Len(top)
       /\ \A k \in 1..Len(top) : top[k][1] \in all /\ top[k][2] = occurs(top[k][1])
       /\ \A k \in 1..Len(top) : \A l \in (k + 1)..Len(top) :
            \/ top[k][2] > top[l][2]
            \/ /\ top[k][2] = top[l][2]
               /\ FirstIndex(stIn, top[k][1]) < FirstIndex(stIn, top[l][1])
       /\ \A node \in all \ included :
            \A k \in 1..Len(top) : occurs(node) <= top[k][2]


\* ---------------------------------------------------------------------
\* The App session: handleFileUpload, the filter panel, Apply Filters and
\* Clear Filters. A handler runs to its end on the state of the latest render.

\* What loadRosbagMessages returns for a stream of results.
RECURSIVE LoadedFrom(_)
LoadedFrom(stream) ==
  IF stream = << >> THEN [ messages |-> << >>, uniqueNodes |-> {} ]
  ELSE LET before == LoadedFrom(SubSeq(stream, 1, Len(stream) - 1))
           res == stream[Len(stream)]
       IN [ messages |-> CallbackMessages(before.messages, res),
            uniqueNodes |-> CallbackNodes(before.uniqueNodes, res) ]

AppResult(payload) ==
  [ conn |-> 1, timestamp |-> [ sec |-> 1, nsec |-> 0 ], message |-> Some(payload) ]

FullPayload ==
  Payload(Some(2), Some(<< "o", "k" >>), Some("n1"), Some("f.cpp"), Some(10),
          Some("fn"), Some(<< "/rosout" >>))

ErrorPayload ==
  Payload(Some(8), Some(<< "x" >>), Some(""), Some(""), Some(0), Some(""),
          Some(<< >>))

BarePayload == Payload(Some(0), Some(<< >>), None, None, None, None, None)

\* The files the user picks, by what their streams hold: no record, two
\* records, and two records of which one is also in the other file.
AppStreams ==
  { << >>,
    << AppResult(FullPayload), AppResult(ErrorPayload) >>,
    << AppResult(BarePayload), AppResult(FullPayload) >> }

LoadedValues == { LoadedFrom(stream) : stream \in AppStreams }

\* What a failed load throws: an Error with a message, an Error with an
\* empty message, and a value that is not an Error.
Throwable(isError, message) == [ isError |-> isError, message |-> message ]

Throwables ==
  { Throwable(TRUE, "Bag file is not indexed"), Throwable(TRUE, ""),
    Throwable(FALSE, "rejected") }

\* What the user types into the keywords / pattern field.
TypedTexts == { << >>, << "o", Comma, " " >>, << "(" >> }

SeverityButtons == { 2, 8 }

RECURSIVE split(_, _)
\* text.split(sep) for a one-character separator and a non-empty text
split(text, sep) ==
  IF \A i \in 1..Len(text) : text[i] # sep THEN << text >>
  ELSE LET cut == CHOOSE i \in 1..Len(text) :
                    /\ text[i] = sep
                    /\ \A j \in 1..(i - 1) : text[j] # sep
       IN << SubSeq(text, 1, cut - 1) >>
            \o split(SubSeq(text, cut + 1, Len(text)), sep)

\* The filter spec applyFilters builds from the panel.
AppFilters(a) ==
  [ nodeNames |-> IF Cardinality(a.selectedNodes) > 0
                  THEN Some(a.selectedNodes) ELSE None,
    severityLevels |-> IF Cardinality(a.selectedSeverities) > 0
                       THEN Some(a.selectedSeverities) ELSE None,
    messageKeywords |->
      IF a.keywords # << >>
      THEN LET parts == split(a.keywords, Comma)
           IN Some([ i \in 1..Len(parts) |-> trim(parts[i]) ])
      ELSE None,
    messageRegex |-> IF a.useRegex THEN Some(a.regexPattern) ELSE None,
    filterMode |-> Some(a.filterMode),
    useRegex |-> Some(a.useRegex),
    startTime |-> None,
    endTime |-> None ]

\* errorMessage
errorMessage(err) ==
  IF err.isError THEN err.message ELSE "Failed to load bag file"

\* The try block after the await, and finally, with filteredMessages kept.
LoadedKeepsFiltered(a, value) ==
  [ a EXCEPT !.messages = value.messages,
             !.uniqueNodes = value.uniqueNodes,
             !.selectedNodes = {},
             !.selectedSeverities = {},
             !.loading = FALSE ]

\* The try block after the await, and finally.
Loaded(a, value) ==
  [ a EXCEPT !.messages = value.messages,
             !.filteredMessages = value.messages,
             !.uniqueNodes = value.uniqueNodes,
             !.selectedNodes = {},
             !.selectedSeverities = {},
             !.loading = FALSE ]

\* The catch block and finally, with the records dropped as well.
LoadFailedClears(a, err) ==
  [ a EXCEPT !.error = errorMessage(err),
             !.messages = << >>,
             !.filteredMessages = << >>,
             !.loading = FALSE ]

\* The catch block and finally.
LoadFailed(a, err) ==
  [ a EXCEPT !.error = errorMessage(err), !.loading = FALSE ]

InitApp ==
  /\ AppMounted
  /\ FilterIdle
  /\ LoadIdle
  /\ ExportIdle
  /\ StatsIdle

\* handleFileUpload up to the await; the input is disabled while loading.
StartUpload ==
  /\ ~app.loading
  /\ app' = [ app EXCEPT !.loading = TRUE, !.error = "" ]
  /\ settled' = None
  /\ UNCHANGED outsideApp

\* loadRosbagMessages resolves.
LoadSucceeds ==
  /\ app.loading
  /\ \E value \in LoadedValues :
       /\ settled' = Some(Resolved(value))
       /\ app' = Loaded(app, value)
  /\ UNCHANGED outsideApp

\* loadRosbagMessages rejects.
LoadFails ==
  /\ app.loading
  /\ \E err \in Throwables :
       /\ settled' = Some(Rejected(err))
       /\ app' = LoadFailed(app, err)
  /\ UNCHANGED outsideApp

\* The panel below is rendered only when messages.length > 0.
PanelShown == Len(app.messages) > 0

applyFilters ==
  /\ PanelShown
  /\ app' = [ app EXCEPT
                !.filteredMessages = filterMessages(app.messages, AppFilters(app)) ]
  /\ UNCHANGED settled
  /\ UNCHANGED outsideApp

ClearFilters ==
  /\ PanelShown
  /\ app' = [ app EXCEPT !.selectedNodes = {},
                         !.selectedSeverities = {},
                         !.keywords = << >>,
                         !.regexPattern = << >>,
                         !.filteredMessages = app.messages ]
  /\ UNCHANGED settled
  /\ UNCHANGED outsideApp

toggleNode ==
  /\ PanelShown
  /\ \E node \in app.uniqueNodes :
       app' = [ app EXCEPT !.selectedNodes =
                  IF node \in @ THEN @ \ { node } ELSE @ \cup { node } ]
  /\ UNCHANGED settled
  /\ UNCHANGED outsideApp

\* The Select All and Clear buttons of the node list.
SelectNodes ==
  /\ PanelShown
  /\ \/ app' = [ app EXCEPT !.selectedNodes = app.uniqueNodes ]
     \/ app' = [ app EXCEPT !.selectedNodes = {} ]
  /\ UNCHANGED settled
  /\ UNCHANGED outsideApp

toggleSeverity ==
  /\ PanelShown
  /\ \E severity \in SeverityButtons :
       app' = [ app EXCEPT !.selectedSeverities =
                  IF severity \in @ THEN @ \ { severity } ELSE @ \cup { severity } ]
  /\ UNCHANGED settled
  /\ UNCHANGED outsideApp

setFilterMode ==
  /\ PanelShown
  /\ \E mode \in { "OR", "AND" } : app' = [ app EXCEPT !.filterMode = mode ]
  /\ UNCHANGED settled
  /\ UNCHANGED outsideApp

setUseRegex ==
  /\ PanelShown
  /\ \E flag \in BOOLEAN : app' = [ app EXCEPT !.useRegex = flag ]
  /\ UNCHANGED settled
  /\ UNCHANGED outsideApp

\* The text field writes regexPattern under useRegex and keywords otherwise.
TypeText ==
  /\ PanelShown
  /\ \E text \in TypedTexts :
       app' = IF app.useRegex THEN [ app EXCEPT !.regexPattern = text ]
              ELSE [ app EXCEPT !.keywords = text ]
  /\ UNCHANGED settled
  /\ UNCHANGED outsideApp

NextApp ==
  \/ StartUpload
  \/ LoadSucceeds
  \/ LoadFails
  \/ applyFilters
  \/ ClearFilters
  \/ toggleNode
  \/ SelectNodes
  \/ toggleSeverity
  \/ setFilterMode
  \/ setUseRegex
  \/ TypeText

SpecApp == InitApp /\ [][NextApp]_vars

\* C19: in the App session, after any sequence of loads (resolved or
\* rejected), Apply Filters, Clear Filters and changes of the filter
\* selections, filteredMessages is a subsequence of the messages held.
C19_FilteredIsSubsequence == IsSubseq(app.filteredMessages, app.messages)

C19_Witness ==
  /\ app.error # ""
  /\ ~app.loading
  /\ Len(app.messages) = 2
  /\ app.messages[1].node = "unknown"
  /\ Len(app.filteredMessages) = 1
  /\ app.filteredMessages[1] = app.messages[2]

\* C20: the step in which a load fails changes nothing of the session but
\* the error text, which becomes the failure's message (the fixed text
\* "Failed to load bag file" for a failure that is not an Error), and the
\* loading flag, which becomes false; and an error text that is set changes
\* only in the step that starts the next load.
C20_FailedLoadFrame ==
  [][ /\ (app.loading /\ IsSome(settled') /\ Val(settled').status = "rejected") =>
           LET err == Val(Val(settled').error) IN
           /\ app'.error = (IF err.isError THEN err.message
                            ELSE "Failed to load bag file")
           /\ app'.loading = FALSE
           /\ \A field \in DOMAIN app \ { "error", "loading" } :
                app'[field] = app[field]
      /\ (app.error # "" /\ app'.error # app.error) =>
           (~app.loading /\ app'.loading /\ app'.error = "")
    ]_vars

C20_Witness ==
  /\ IsSome(settled)
  /\ Val(settled).status = "rejected"
  /\ app.error = "Bag file is not indexed"
  /\ ~app.loading
  /\ Len(app.messages) = 2
  /\ Len(app.filteredMessages) = 1
  /\ app.selectedNodes = { "n1" }
  /\ app.uniqueNodes = { "n1" }


====
